---- MODULE Spec2Model ----
(***************************************************************************)
(* Mini-ERP backend (src/main.py, src/schemas.py): the API-key role gate   *)
(* and the five business endpoints over the company, module and            *)
(* useraccount collections.                                                *)
(*                                                                         *)
(* Granularity.  Every handler is one atomic step (its dependency          *)
(* get_auth_context/require_roles, then its single store call), except     *)
(* issue_api_key, whose find_one-by-email and update_one-by-id are two     *)
(* store calls with the handler's own state in between: it is split into   *)
(* issue_api_key_find and issue_api_key_update, run by the Workers of the  *)
(* server's thread pool.                                                   *)
(*                                                                         *)
(* Abstractions.  Request bodies are the ones the schema layer accepts.    *)
(* os.urandom(16) is ideal randomness: a value of KeySpace that was never  *)
(* drawn or stored before (a repeat has probability 2^-128 and is outside  *)
(* a possibilistic model).  database.py and the UserAccount schema are not *)
(* among the sources; they are modelled from the specification.  The store *)
(* is sequentially consistent.  A run makes at most cap store writes.      *)
(***************************************************************************)
EXTENDS Integers, Sequences, FiniteSets, TLC

VARIABLES
    db,           \* database.db: TRUE when a store is configured, FALSE for None
    company,      \* the "company" collection, in natural (insertion) order
    module,       \* the "module" collection
    useraccount,  \* the "useraccount" collection
    nextId,       \* the store's identifier generator
    drawn,        \* the key values the store started with or os.urandom has produced
    slot,         \* per worker: the issue_api_key request it is running or ran last
    last,         \* the most recent handler step: request line, payload, response
    writes,       \* history: number of store writes made so far
    cap,          \* the number of store writes the explored runs may make
    ua0,          \* history: the useraccount collection of the initial state
    co0,          \* history: number of companies stored in the initial state
    toggles,      \* history: number of toggle_module calls that returned success
    replaced      \* history: keys that issue_api_key has overwritten

vars == <<db, company, module, useraccount, nextId, drawn, slot, last, writes, cap, ua0,
          co0, toggles, replaced>>

----------------------------------------------------------------------------
(* Bounds of the model *)

MaxWrites == 1          \* store writes (documents created, keys reissued) in a run

(* Program constants *)

ListLimit == 50         \* get_documents("company", limit=50)

----------------------------------------------------------------------------
(* Values *)

Null == "null"          \* Python None / JSON null
Absent == "absent"      \* a field the request body does not carry
NullList == <<Null>>    \* JSON null in a list-typed field
AbsentList == <<Absent>>
EmptyKey == ""          \* an X-API-Key header with an empty value

\* the key universe: the keys of the initial accounts, then the draws in order
KeyNames == <<"k1", "k2", "k3", "k4", "k5", "k6", "k7", "k8">>
KeySpace == {KeyNames[i] : i \in 1..(Len(ua0) + cap)}
\* what a client may send as X-API-Key: nothing, an empty value, any key
PresentedKeys == {Null, EmptyKey} \cup KeySpace

Emails == {"a@x", "b@x"}
Workers == {"w1", "w2"}

\* str(ObjectId): an injective rendering, distinct from the identifier itself
Str(oid) == <<"str", oid>>

RECURSIVE FirstIndex(_, _, _, _)
FirstIndex(coll, field, value, i) ==
    IF i > Len(coll) THEN 0
    ELSE IF coll[i][field] = value THEN i
    ELSE FirstIndex(coll, field, value, i + 1)

NoDoc == [none |-> TRUE]       \* find_one's None
NoCtx == [none |-> TRUE]
NoId == Str(0)                 \* a response without an id

\* collection.find_one({field: value}): the first match in natural order, or None
find_one(coll, field, value) ==
    LET i == FirstIndex(coll, field, value, 1)
    IN IF i = 0 THEN NoDoc ELSE coll[i]

\* collection.update_one({field: value}, {"$set": {target: new}}): the first match
update_one(coll, field, value, target, new) ==
    LET i == FirstIndex(coll, field, value, 1)
    IN IF i = 0 THEN coll ELSE [coll EXCEPT ![i][target] = new]

\* create_document(collection_name, record): the record is stored under a newly
\* assigned identifier, at the end of the collection's natural order
create_document(coll, rec, oid) == Append(coll, rec @@ [id |-> oid])

Min(a, b) == IF a < b THEN a ELSE b

\* get_documents(collection_name, limit): up to limit records, either the first
\* ones in natural order or the most recently inserted ones
get_documents(coll, limit) ==
    LET n == Min(Len(coll), limit)
    IN {SubSeq(coll, 1, n), SubSeq(coll, Len(coll) - n + 1, Len(coll))}

\* dict.get(key, default)
DocGet(doc, key, default) ==
    IF key \in DOMAIN doc THEN doc[key] ELSE default

----------------------------------------------------------------------------
(* Auth/RBAC gate *)

AuthContext(doc) ==
    [user_id |-> Str(doc.id),
     email |-> doc.email,
     role |-> DocGet(doc, "role", "viewer"),
     company_id |-> doc.company_id]

get_auth_context(x_api_key) ==
    IF x_api_key = Null \/ x_api_key = EmptyKey
    THEN [status |-> 401, detail |-> "Missing X-API-Key header", ctx |-> NoCtx]
    ELSE LET doc == IF db THEN find_one(useraccount, "api_key", x_api_key) ELSE NoDoc
         IN IF doc = NoDoc
            THEN [status |-> 401, detail |-> "Invalid API key", ctx |-> NoCtx]
            ELSE [status |-> 200, detail |-> "", ctx |-> AuthContext(doc)]

\* a plausible slip: the role is never compared
require_roles_any(roles, x_api_key) == get_auth_context(x_api_key)

require_roles(roles, x_api_key) ==
    LET r == get_auth_context(x_api_key)
    IN IF r.status # 200 THEN r
       ELSE IF r.ctx.role \notin roles
            THEN [status |-> 403, detail |-> "Forbidden: insufficient role", ctx |-> NoCtx]
            ELSE r

----------------------------------------------------------------------------
(* Request bodies and schemas *)

CompanyBodies ==
    {[name |-> "Acme", industry |-> Absent, country |-> Absent, modules |-> AbsentList],
     [name |-> "Acme", industry |-> "Retail", country |-> Absent, modules |-> <<"Sales">>],
     [name |-> "Bolt", industry |-> Absent, country |-> "NO", modules |-> NullList]}

ModuleBodies == [company_id : {"c1"}, name : {"Sales"}, enabled : BOOLEAN]

UserBodies ==
    {[name |-> "U", email |-> "a@x", role |-> Absent, company_id |-> Absent],
     [name |-> "U", email |-> "b@x", role |-> "manager", company_id |-> "c1"],
     [name |-> "U", email |-> "b@x", role |-> "admin", company_id |-> Absent]}

IssueBodies == [email : Emails]

\* class CompanyCreate: the defaults of the optional fields
CompanyCreate(body) ==
    [name |-> body.name,
     industry |-> IF body.industry = Absent THEN Null ELSE body.industry,
     country |-> IF body.country = Absent THEN Null ELSE body.country,
     modules |-> IF body.modules = AbsentList THEN <<>> ELSE body.modules]

\* class UserCreate
UserCreate(body) ==
    [name |-> body.name,
     email |-> body.email,
     role |-> IF body.role = Absent THEN "viewer" ELSE body.role,
     company_id |-> IF body.company_id = Absent THEN Null ELSE body.company_id]

\* schemas.Company(**payload.model_dump()): modules is List[str], None is refused
CompanyValid(payload) == payload.modules # NullList

\* a plausible slip: the modules are not passed on
Company_no_modules(payload) ==
    [name |-> payload.name, industry |-> payload.industry,
     country |-> payload.country, modules |-> <<>>]

Company(payload) ==
    [name |-> payload.name, industry |-> payload.industry,
     country |-> payload.country, modules |-> payload.modules]

\* schemas.Module(company_id=..., name=..., enabled=...)
Module(payload) ==
    [company_id |-> payload.company_id, name |-> payload.name,
     enabled |-> payload.enabled]

\* UserAccount(name=..., email=..., role=..., company_id=..., api_key=...)
UserAccount(payload, api_key) ==
    [name |-> payload.name, email |-> payload.email, role |-> payload.role,
     company_id |-> payload.company_id, api_key |-> api_key]

\* a plausible slip: a constant where the random bytes should be
os_urandom_fixed == {KeyNames[1]} \cap KeySpace

\* os.urandom(16).hex(): the values a draw can produce.  Ideal randomness: a value
\* never drawn before; the unused values are interchangeable, so the next one in
\* KeyNames stands for all of them.
os_urandom == {KeyNames[Cardinality(drawn) + 1]} \cap KeySpace

----------------------------------------------------------------------------
(* Handler steps *)

\* a plausible slip: the role set of the listing on the user endpoint
roles_create_user_wide == {"admin", "manager"}

\* The role sets of the endpoints: Depends(require_roles(...))
roles_create_company == {"admin"}
roles_list_companies == {"admin", "manager"}
roles_toggle_module == {"admin", "manager"}
roles_create_user == {"admin"}
roles_issue_api_key == {"admin"}

\* step: "call" for a handler that runs in one step, "find" and "update" for the two
\* steps of issue_api_key.  body: the request body, NoBody for a request without one
\* and for a request the gate refused.  status 0: no response yet.
Event(op, step, key, body, status, id, api_key, docs) ==
    [op |-> op, step |-> step, key |-> key, body |-> body, status |-> status,
     id |-> id, api_key |-> api_key, docs |-> docs]

NoBody == [none |-> TRUE]

\* raise HTTPException(status): the response, and nothing else changes
Raise(op, step, key, body, status) ==
    /\ last' = Event(op, step, key, body, status, NoId, Null, <<>>)
    /\ UNCHANGED <<db, company, module, useraccount, nextId, drawn, slot, writes,
                   cap, ua0, co0, toggles, replaced>>

create_company ==
    \E key \in PresentedKeys, body \in CompanyBodies :
        LET r == require_roles(roles_create_company, key)
            payload == CompanyCreate(body)
        IN IF r.status # 200
           THEN Raise("create_company", "call", key, NoBody, r.status)
           ELSE IF ~CompanyValid(payload)
                THEN Raise("create_company", "call", key, body, 500)
                ELSE /\ writes < cap
                     /\ writes' = writes + 1
                     /\ company' = create_document(company, Company(payload), nextId)
                     /\ nextId' = nextId + 1
                     /\ last' = Event("create_company", "call", key, body, 200,
                                      Str(nextId), Null, <<>>)
                     /\ UNCHANGED <<db, module, useraccount, drawn, slot, cap, ua0,
                                    co0, toggles, replaced>>

\* for d in docs: d["_id"] = str(d.get("_id"))
StrIds(docs) == [i \in 1..Len(docs) |-> [docs[i] EXCEPT !.id = Str(@)]]

list_companies ==
    \E key \in PresentedKeys :
        LET r == require_roles(roles_list_companies, key)
        IN IF r.status # 200
           THEN Raise("list_companies", "call", key, NoBody, r.status)
           ELSE \E docs \in get_documents(company, ListLimit) :
                    /\ last' = Event("list_companies", "call", key, NoBody, 200,
                                     NoId, Null, StrIds(docs))
                    /\ UNCHANGED <<db, company, module, useraccount, nextId, drawn,
                                   slot, writes, cap, ua0, co0, toggles, replaced>>

\* a plausible slip: the toggle updates the record of the same company and module
\* name when there is one
toggle_store_upsert(coll, body, oid) ==
    LET same == {i \in 1..Len(coll) : coll[i].company_id = body.company_id
                                      /\ coll[i].name = body.name}
    IN IF same = {} THEN create_document(coll, Module(body), oid)
       ELSE [i \in 1..Len(coll) |->
                IF i \in same THEN [coll[i] EXCEPT !.enabled = body.enabled]
                ELSE coll[i]]

\* mod = Module(...); create_document("module", mod)
toggle_store(coll, body, oid) == create_document(coll, Module(body), oid)

toggle_module ==
    \E key \in PresentedKeys, body \in ModuleBodies :
        LET r == require_roles(roles_toggle_module, key)
        IN IF r.status # 200
           THEN Raise("toggle_module", "call", key, NoBody, r.status)
           ELSE /\ writes < cap
                /\ writes' = writes + 1
                /\ module' = toggle_store(module, body, nextId)
                /\ nextId' = nextId + 1
                /\ toggles' = toggles + 1
                /\ last' = Event("toggle_module", "call", key, body, 200,
                                 Str(nextId), Null, <<>>)
                /\ UNCHANGED <<db, company, useraccount, drawn, slot, cap, ua0,
                               co0, replaced>>

\* a plausible slip: the account is stored before the role is checked
create_user_store_first ==
    \E key \in PresentedKeys, body \in UserBodies :
        LET r == require_roles(roles_create_user, key)
            payload == UserCreate(body)
        IN \E api_key \in os_urandom :
               /\ writes < cap
               /\ writes' = writes + 1
               /\ drawn' = drawn \cup {api_key}
               /\ useraccount' = create_document(useraccount,
                                     UserAccount(payload, api_key), nextId)
               /\ nextId' = nextId + 1
               /\ last' = IF r.status # 200
                          THEN Event("create_user", "call", key, NoBody, r.status,
                                     NoId, Null, <<>>)
                          ELSE Event("create_user", "call", key, body, 200,
                                     Str(nextId), api_key, <<>>)
               /\ UNCHANGED <<db, company, module, slot, cap, ua0, co0,
                              toggles, replaced>>

create_user ==
    \E key \in PresentedKeys, body \in UserBodies :
        LET r == require_roles(roles_create_user, key)
            payload == UserCreate(body)
        IN IF r.status # 200
           THEN Raise("create_user", "call", key, NoBody, r.status)
           ELSE \E api_key \in os_urandom :
                    /\ writes < cap
                    /\ writes' = writes + 1
                    /\ drawn' = drawn \cup {api_key}
                    /\ useraccount' = create_document(useraccount,
                                          UserAccount(payload, api_key), nextId)
                    /\ nextId' = nextId + 1
                    /\ last' = Event("create_user", "call", key, body, 200,
                                     Str(nextId), api_key, <<>>)
                    /\ UNCHANGED <<db, company, module, slot, cap, ua0, co0,
                                   toggles, replaced>>

\* slot[w].doc: the handler's local doc; slot[w].rival: the key that another call
\* for the same account returned between this call's find_one and its update_one
IdleSlot ==
    [pc |-> "idle", key |-> Null, email |-> Null, doc |-> NoDoc, new_key |-> Null,
     rival |-> Null]

\* a plausible slip: the lookup names the wrong field
issue_lookup_by_name(email) ==
    IF db THEN find_one(useraccount, "name", email) ELSE NoDoc

\* doc = db["useraccount"].find_one({"email": payload.email}) if db else None
issue_lookup(email) ==
    IF db THEN find_one(useraccount, "email", email) ELSE NoDoc

\* issue_api_key up to and including the lookup; a worker takes the request when it
\* is not in the middle of another one
issue_api_key_find(w) ==
    /\ slot[w].pc # "found"
    /\ \E key \in PresentedKeys, body \in IssueBodies :
        LET r == require_roles(roles_issue_api_key, key)
            doc == issue_lookup(body.email)
        IN IF r.status # 200
           THEN Raise("issue_api_key", "find", key, NoBody, r.status)
           ELSE IF doc = NoDoc
                THEN Raise("issue_api_key", "find", key, body, 404)
                ELSE /\ slot' = [slot EXCEPT ![w] =
                                   [pc |-> "found", key |-> key, email |-> body.email,
                                    doc |-> doc, new_key |-> Null, rival |-> Null]]
                     /\ last' = Event("issue_api_key", "find", key, body, 0, NoId,
                                      Null, <<>>)
                     /\ UNCHANGED <<db, company, module, useraccount, nextId,
                                    drawn, writes, cap, ua0, co0, toggles,
                                    replaced>>

\* plausible slips: the new key is returned but never stored; the account is
\* replaced by a new document; the write is conditional on the key read earlier
reissue_unsaved(coll, doc, new_key) == coll

reissue_reinsert(coll, doc, new_key) ==
    LET i == FirstIndex(coll, "id", doc.id, 1)
    IN Append(SubSeq(coll, 1, i - 1) \o SubSeq(coll, i + 1, Len(coll)),
              [doc EXCEPT !.api_key = new_key, !.id = 0])

reissue_if_unchanged(coll, doc, new_key) ==
    IF find_one(coll, "id", doc.id).api_key = doc.api_key
    THEN update_one(coll, "id", doc.id, "api_key", new_key)
    ELSE coll

\* db["useraccount"].update_one({"_id": doc["_id"]}, {"$set": {"api_key": new_key}})
reissue(coll, doc, new_key) == update_one(coll, "id", doc.id, "api_key", new_key)

\* issue_api_key from os.urandom to the response
issue_api_key_update(w) ==
    /\ slot[w].pc = "found"
    /\ writes < cap
    /\ \E new_key \in os_urandom :
        /\ writes' = writes + 1
        /\ drawn' = drawn \cup {new_key}
        /\ useraccount' = reissue(useraccount, slot[w].doc, new_key)
        /\ slot' = [v \in Workers |->
                      IF v = w
                      THEN [slot[w] EXCEPT !.pc = "done", !.new_key = new_key]
                      ELSE IF slot[v].pc = "found" /\ slot[v].doc.id = slot[w].doc.id
                           THEN [slot[v] EXCEPT !.rival = new_key]
                           ELSE slot[v]]
        /\ replaced' = replaced \cup
                         {find_one(useraccount, "id", slot[w].doc.id).api_key}
        /\ last' = Event("issue_api_key", "update", slot[w].key,
                         [email |-> slot[w].email], 200, NoId, new_key, <<>>)
        /\ UNCHANGED <<db, company, module, nextId, cap, ua0, co0, toggles>>

----------------------------------------------------------------------------
(* Initial states.  An unconfigured server (db is None), or a store holding  *)
(* accounts that were put there before the server started, with the keys     *)
(* k1, k2, ... that earlier draws left them.                                 *)

InitRoles ==
    {<<>>, <<"viewer">>, <<"manager">>, <<"manager", "viewer">>, <<"admin">>,
     <<"admin", "manager">>, <<"viewer", "admin">>}

\* email uniqueness is not enforced: the first two accounts share an address
EmailNames == <<"a@x", "a@x">>

InitAccount(i, role) ==
    [name |-> "U", email |-> EmailNames[i], role |-> role, company_id |-> Null,
     api_key |-> KeyNames[i], id |-> i]

InitAccounts(roleSeqs) ==
    {[i \in 1..Len(roles) |-> InitAccount(i, roles[i])] : roles \in roleSeqs}

InitCompanies(first, n) ==
    [i \in 1..n |-> Company(CompanyCreate([name |-> "Acme", industry |-> Absent,
                                           country |-> Absent,
                                           modules |-> AbsentList]))
                    @@ [id |-> first + i - 1]]

InitWith(accounts, ncompanies, budget) ==
    /\ db \in BOOLEAN
    /\ useraccount \in IF db THEN accounts ELSE {<<>>}
    /\ co0 \in IF db THEN ncompanies ELSE {0}
    /\ writes = 0
    /\ cap = budget
    /\ company = InitCompanies(Len(useraccount) + 1, co0)
    /\ module = <<>>
    /\ nextId = Len(useraccount) + co0 + 1
    /\ drawn = {useraccount[i].api_key : i \in 1..Len(useraccount)}
    /\ slot = [w \in Workers |-> IdleSlot]
    /\ last = Event("none", "none", Null, NoBody, 0, NoId, Null, <<>>)
    /\ ua0 = useraccount
    /\ toggles = 0
    /\ replaced = {}

Next ==
    \/ create_company
    \/ list_companies
    \/ toggle_module
    \/ create_user
    \/ \E w \in Workers : issue_api_key_find(w)
    \/ \E w \in Workers : issue_api_key_update(w)

\* every endpoint, over a store without companies
Init == InitWith(InitAccounts(InitRoles), {0}, MaxWrites)

Spec == Init /\ [][Next]_vars

\* the user management endpoints, one write deeper
InitUsers == InitWith(InitAccounts(InitRoles), {0}, MaxWrites + 1)

NextUsers ==
    \/ create_user
    \/ \E w \in Workers : issue_api_key_find(w)
    \/ \E w \in Workers : issue_api_key_update(w)

SpecUsers == InitUsers /\ [][NextUsers]_vars

\* the company and module endpoints, one write deeper, over a store that may
\* already hold ListLimit - 1 companies
InitRecords ==
    InitWith(InitAccounts({<<"admin", "manager">>}), {0, ListLimit - 1}, MaxWrites + 1)

NextRecords ==
    \/ create_company
    \/ list_companies
    \/ toggle_module

SpecRecords == InitRecords /\ [][NextRecords]_vars

----------------------------------------------------------------------------
(* Properties *)

AdminOnly == {"create_company", "create_user", "issue_api_key"}
AdminOrManager == {"list_companies", "toggle_module"}
Business == AdminOnly \cup AdminOrManager

PermittedRoles(op) == IF op \in AdminOnly THEN {"admin"} ELSE {"admin", "manager"}

\* the stored accounts whose api_key is the given header value
Holders(accounts, key) ==
    {i \in 1..Len(accounts) : key \notin {Null, EmptyKey} /\ accounts[i].api_key = key}

\* C1: a request to a business endpoint gets past the gate (any response other than
\* 401 and 403) only if its X-API-Key is the api_key of a stored account whose role
\* is in the endpoint's set; otherwise it gets 401 when the key is missing, empty or
\* held by no account, and 403 when it is held by an account with another role.  The
\* response of issue-key's second step belongs to a request that passed the gate.
C1_Step ==
    /\ last'.op \in Business
    /\ last'.step \in {"call", "find"} =>
         LET held == Holders(useraccount, last'.key)
             ok == \E i \in held : useraccount[i].role \in PermittedRoles(last'.op)
         IN /\ last'.status \notin {401, 403} => ok
            /\ ~ok /\ held = {} => last'.status = 401
            /\ ~ok /\ held # {} => last'.status = 403
    /\ last'.step = "update" =>
         \E w \in Workers : /\ slot[w].pc = "found"
                            /\ slot[w].key = last'.key
                            /\ slot'[w].pc = "done"

\* C1: every step decides the gate that way (401, 403 or through, by key and role)
C1_GateDecides == [][C1_Step]_vars

\* C1 witness: a manager's key has just been accepted by the module toggle
C1_Witness ==
    /\ last.op = "toggle_module"
    /\ last.status = 200
    /\ \E i \in Holders(useraccount, last.key) : useraccount[i].role = "manager"

\* C9: a request answered 401 or 403 leaves the three collections as they were,
\* assigns no identifier and draws no key.
C9_Step ==
    last'.status \in {401, 403} =>
        UNCHANGED <<company, module, useraccount, nextId, drawn>>

\* C9: no step that answers 401 or 403 has an effect on the store
C9_RejectedHasNoEffect == [][C9_Step]_vars

\* C9 witness: an account exists and a request of a viewer to create a user has
\* just been refused with 403
C9_Witness ==
    /\ last.op = "create_user"
    /\ last.status = 403
    /\ \E i \in Holders(useraccount, last.key) : useraccount[i].role = "viewer"

AllDocs == company \o module \o useraccount

\* every document of the first collection is, field for field, in the second
Kept(old, new) == \A i \in 1..Len(old) : \E j \in 1..Len(new) : new[j] = old[i]

\* the same, the api_key aside
KeptButKey(old, new) ==
    \A i \in 1..Len(old) : \E j \in 1..Len(new) :
        /\ DOMAIN new[j] = DOMAIN old[i]
        /\ \A f \in DOMAIN old[i] \ {"api_key"} : new[j][f] = old[i][f]
        /\ new[j].api_key # old[i].api_key =>
             last'.op = "issue_api_key" /\ last'.step = "update"

\* C8: no document is ever deleted, every document keeps its identifier, the
\* identifiers are pairwise distinct, company and module records never change, and
\* the only field that changes is the api_key of an account, through issue-key.
C8_Step ==
    /\ Kept(company, company')
    /\ Kept(module, module')
    /\ KeptButKey(useraccount, useraccount')

C8_DistinctIds ==
    \A i, j \in 1..Len(AllDocs) : AllDocs[i].id = AllDocs[j].id => i = j

NoAdmin(accounts) == \A i \in 1..Len(accounts) : accounts[i].role # "admin"

\* C10: an account is added only by a create-user request that an admin's key made,
\* one at a time, and no step changes the role of a stored account; so a store that
\* starts without an admin keeps exactly its initial accounts, and every request to
\* an admin-only endpoint is refused.
C10_Step ==
    /\ Len(useraccount') # Len(useraccount) =>
         /\ Len(useraccount') = Len(useraccount) + 1
         /\ last'.op = "create_user"
         /\ last'.status = 200
         /\ \E i \in Holders(useraccount, last'.key) : useraccount[i].role = "admin"
    /\ \A i \in 1..Len(useraccount) :
         \E j \in 1..Len(useraccount') :
            /\ useraccount'[j].id = useraccount[i].id
            /\ useraccount'[j].role = useraccount[i].role

C10_Locked ==
    NoAdmin(ua0) =>
        /\ useraccount = ua0
        /\ last.op \in AdminOnly => last.status \in {401, 403}

\* C10: without an initial admin the accounts stay as they were and admin-only
\* requests are refused, and every step adds accounts by an admin's create-user only
C10_NoBootstrap == []C10_Locked /\ [][C10_Step]_vars

\* C10 witness: in a store that started with a manager and a viewer and no admin,
\* the manager has just been refused the creation of a user
C10_Witness ==
    /\ NoAdmin(ua0)
    /\ Len(ua0) = 2
    /\ last.op = "create_user"
    /\ last.status = 403

UpdateStep == last'.op = "issue_api_key" /\ last'.step = "update"

WithEmail(accounts, email) ==
    {i \in 1..Len(accounts) : accounts[i].email = email}

FirstOf(S) == CHOOSE i \in S : \A j \in S : i <= j

\* C2, as claimed: once issue-key has succeeded for an email, no key that an account
\* with that email held before the call is held by any account.
C2_Step ==
    UpdateStep =>
        \A i \in WithEmail(useraccount, last'.body.email) :
            Holders(useraccount', useraccount[i].api_key) = {}

\* C2, as claimed: every reissue revokes every key stored under its email
C2_AllKeysOfEmailRevoked == [][C2_Step]_vars

\* C2, amended: issue-key overwrites the key of the first stored account with the
\* email, and of no other; the overwritten key is refused with 401 from then on.
C2_FirstStep ==
    UpdateStep =>
        LET i == FirstOf(WithEmail(useraccount, last'.body.email))
        IN /\ useraccount[i].api_key \in replaced'
           /\ useraccount'[i].api_key = last'.api_key
           /\ \A j \in 1..Len(useraccount) \ {i} : useraccount'[j] = useraccount[j]

C2_ReplacedRefused == \A k \in replaced : get_auth_context(k).status = 401

\* C2, amended: every reissue overwrites the key of the first account with the
\* email only, and an overwritten key is refused with 401 ever after
C2_FirstAccountKeyRevoked == []C2_ReplacedRefused /\ [][C2_FirstStep]_vars

\* C2 witness: two accounts share the email of a reissue that has completed; the
\* overwritten key is held by nobody and the other account still has its key
C2_Witness ==
    /\ last.op = "issue_api_key"
    /\ last.step = "update"
    /\ Cardinality(WithEmail(useraccount, last.body.email)) > 1
    /\ replaced # {}
    /\ \A i \in WithEmail(useraccount, last.body.email) :
           Holders(useraccount, useraccount[i].api_key) = {i}

\* C3: when a call's update follows the update of another call that ran for the
\* same account between this call's lookup and its update, both calls have answered
\* 200 with a key, the account holds the key of the later update, the earlier key is
\* refused with 401, and exactly one of the two keys is valid for the account.
C3_Step ==
    \A w \in Workers :
        slot[w].pc = "found" /\ slot[w].rival # Null /\ slot'[w].pc = "done" =>
            LET early == slot[w].rival
                late == slot'[w].new_key
                acct == {i \in 1..Len(useraccount') :
                            useraccount'[i].id = slot[w].doc.id}
            IN /\ last'.status = 200
               /\ last'.api_key = late
               /\ early \in KeySpace /\ late \in KeySpace
               /\ \A i \in acct : useraccount'[i].api_key = late
               /\ Holders(useraccount', early) = {}
               /\ Cardinality({k \in {early, late} :
                      \E i \in acct : useraccount'[i].api_key = k}) = 1

\* C3: of two interleaved reissues for one account, the later update wins and the
\* earlier key is refused
C3_LastWriteWins == [][C3_Step]_vars

\* C3 witness: both workers have completed a call for the same account, one of them
\* between the other's lookup and update
C3_Witness ==
    \E v, w \in Workers :
        /\ v # w
        /\ slot[v].pc = "done" /\ slot[w].pc = "done"
        /\ slot[v].doc.id = slot[w].doc.id
        /\ slot[w].rival = slot[v].new_key
        /\ get_auth_context(slot[v].new_key).status = 401
        /\ get_auth_context(slot[w].new_key).status = 200

\* C6: a successful create-user returns a key that is none of the keys stored or
\* returned before, and that resolves at once to the AuthContext of the new account:
\* its id, the email and company_id of the request, and its role, "viewer" when the
\* request gave none.
C6_Fresh ==
    last'.op = "create_user" /\ last'.status = 200 => last'.api_key \notin drawn

C6_Resolves ==
    last.op = "create_user" /\ last.status = 200 =>
        get_auth_context(last.api_key) =
            [status |-> 200, detail |-> "",
             ctx |-> [user_id |-> last.id,
                      email |-> last.body.email,
                      role |-> IF last.body.role = Absent THEN "viewer"
                               ELSE last.body.role,
                      company_id |-> IF last.body.company_id = Absent THEN Null
                                     ELSE last.body.company_id]]

\* C6: the key of a successful create-user is new and resolves at once to the
\* AuthContext of the account just created
C6_NewKeyWorks == []C6_Resolves /\ [][C6_Fresh]_vars

\* C6 witness: the second account created in a run, made without a role
C6_Witness ==
    /\ last.op = "create_user"
    /\ last.status = 200
    /\ last.body.role = Absent
    /\ Len(useraccount) = Len(ua0) + 2

\* C7: an admin's issue-key answers 404 exactly when no stored account has the email,
\* and then draws no key and leaves the accounts as they were; the second step of a
\* call that found the email changes the api_key of exactly one account, which has
\* that email, to the key it returns.
C7_Step ==
    /\ last'.op = "issue_api_key" /\ last'.step = "find"
           /\ last'.status \notin {401, 403} =>
         /\ last'.status = 404 <=> WithEmail(useraccount, last'.body.email) = {}
         /\ last'.status = 404 => UNCHANGED <<useraccount, drawn>>
    /\ UpdateStep =>
         LET changed == {i \in 1..Len(useraccount) : useraccount'[i] # useraccount[i]}
         IN /\ Len(useraccount') = Len(useraccount)
            /\ last'.status = 200
            /\ Cardinality(changed) = 1
            /\ \A i \in changed :
                 /\ useraccount[i].email = last'.body.email
                 /\ useraccount'[i] = [useraccount[i] EXCEPT !.api_key = last'.api_key]

\* C7: issue-key answers 404 without effect for an unknown email, and otherwise
\* overwrites the api_key of exactly one account with the key it returns
C7_NotFoundOrOne == [][C7_Step]_vars

\* C7 witness: an admin has just been answered 404 for an email no account has
C7_Witness ==
    /\ last.op = "issue_api_key"
    /\ last.status = 404
    /\ WithEmail(useraccount, last.body.email) = {}
    /\ \E i \in Holders(useraccount, last.key) : useraccount[i].role = "admin"

\* the record a listing shows for a stored company
Listed(c) == [c EXCEPT !.id = Str(@)]

\* the companies created since the initial state
Created == {i \in 1..Len(company) : i > co0}

ListIsLast == last.op = "list_companies" /\ last.status = 200

InList(c) == \E k \in 1..Len(last.docs) : last.docs[k] = Listed(c)

\* C4, as claimed: every successful listing shows every company created earlier,
\* however many companies are stored.
C4_AlwaysListed ==
    ListIsLast => \A i \in Created : InList(company[i])

\* C4, amended: a successful create stores the submitted name, industry, country and
\* modules (null, null and the empty list for what the body leaves out) under the id
\* it returns; a successful listing shows at most ListLimit records, and when no more
\* than ListLimit companies are stored it shows every one of them.
C4_CreateStep ==
    last'.op = "create_company" /\ last'.status = 200 =>
        /\ Len(company') = Len(company) + 1
        /\ LET c == company'[Len(company')]
               b == last'.body
           IN /\ Str(c.id) = last'.id
              /\ c.name = b.name
              /\ c.industry = (IF b.industry = Absent THEN Null ELSE b.industry)
              /\ c.country = (IF b.country = Absent THEN Null ELSE b.country)
              /\ c.modules = (IF b.modules = AbsentList THEN <<>> ELSE b.modules)

C4_Window ==
    ListIsLast =>
        /\ Len(last.docs) <= ListLimit
        /\ Len(company) <= ListLimit => \A i \in 1..Len(company) : InList(company[i])

\* C4, amended: a created company is stored as submitted, and a listing shows it
\* whenever no more than ListLimit companies are stored
C4_ListedWithinLimit == []C4_Window /\ [][C4_CreateStep]_vars

\* C4 witness: a listing of exactly ListLimit companies that shows the one created
\* on top of the ListLimit - 1 stored before
C4_Witness ==
    /\ ListIsLast
    /\ Len(company) = ListLimit
    /\ Created # {}
    /\ \A i \in Created : InList(company[i])

\* C5: a successful toggle appends exactly one module record, under an identifier no
\* document had, with the fields of the request, and changes no stored record; the
\* number of module records is the number of successful toggles.
C5_Step ==
    last'.op = "toggle_module" /\ last'.status = 200 =>
        /\ Len(module') = Len(module) + 1
        /\ \A i \in 1..Len(module) : module'[i] = module[i]
        /\ LET m == module'[Len(module')]
           IN /\ \A i \in 1..Len(AllDocs) : AllDocs[i].id # m.id
              /\ Str(m.id) = last'.id
              /\ m.company_id = last'.body.company_id
              /\ m.name = last'.body.name
              /\ m.enabled = last'.body.enabled

C5_Count == Len(module) = toggles

\* C5: every successful toggle appends one new module record and changes none;
\* there are as many records as successful toggles
C5_AppendOnly == []C5_Count /\ [][C5_Step]_vars

\* C5 witness: the same toggle made twice has left two records that differ in their
\* identifier only
C5_Witness ==
    /\ toggles = 2
    /\ Len(module) = 2
    /\ module[1].id # module[2].id
    /\ [module[1] EXCEPT !.id = 0] = [module[2] EXCEPT !.id = 0]

====
